---- MODULE Spec2Model ----
(***************************************************************************)
(* A model of the KubeflowTraining notebooks: the get_resource helper that *)
(* parses captured kubectl output, the notebook cells that submit, inspect *)
(* and delete a resource, the Experiment / TFJob manifests and their trial *)
(* templates, and the two trainers (iris.py, tfjobtitan.py) the manifests  *)
(* and the %run cells start.                                               *)
(*                                                                         *)
(* Text is a sequence of tokens: a token is either one whitespace          *)
(* character (" ", "\t", "\n") or a maximal run of non-whitespace          *)
(* characters (a word).  The pattern ^(.+)\s+created only ever splits a    *)
(* text next to a whitespace character, so every match boundary is a       *)
(* token boundary.                                                         *)
(***************************************************************************)
EXTENDS Integers, Sequences, FiniteSets, TLC

VARIABLES
    \* ---- notebook kernel and cluster ----
    nb,              \* which notebook is open
    cell,            \* index of the next cell of the run (Len+1: run finished)
    halted,          \* the run stopped on an exception
    kubectl_output,  \* %%capture variable (tf_output in the TFJob notebook)
    EXPERIMENT,      \* notebook variable (TF_JOB in the TFJob notebook)
    cluster,         \* names of the resources that exist in namespace demo01
    kubectl_result,  \* what the last apply / create did
    addressed,       \* the argument the last describe / delete command received
    \* ---- trial and trainer process ----
    launch,          \* who starts the container and with which environment
    commands,        \* replica -> rendered container command (after the script)
    argv,            \* command line of the running trainer
    prog,            \* which trainer script runs
    tpc,             \* position of the trainer process
    args,            \* parsed argparse namespace
    unknown,         \* arguments parse_known_args left over
    handler,         \* stream of the root logger's handler
    used,            \* the settings the training calls received
    epoch,           \* current epoch
    batch_idx,       \* current batch (iris) / step of the epoch (tensorflow)
    steps,           \* training steps (optimizer updates) done so far
    cursor,          \* position in the repeated training dataset
    evals,           \* evaluation passes done so far
    log,             \* records emitted through logging, in order
    \* ---- the data frame of make_datasets_unbatched ----
    csv,             \* the table read_csv returned
    data             \* the frame as it is at the current position

nbVars == <<nb, cell, halted, kubectl_output, EXPERIMENT, cluster,
            kubectl_result, addressed>>
trVars == <<launch, commands, argv, prog, tpc, args, unknown, handler, used,
            epoch, batch_idx, steps, cursor, evals, log>>
dfVars == <<csv, data>>
vars == <<nbVars, trVars, dfVars>>

\* ------------------------------------------------------------------------
\* Bounds
\* ------------------------------------------------------------------------
\* longest captured text (in tokens) get_resource is applied to
MaxLen == 5

\* ------------------------------------------------------------------------
\* Text
\* ------------------------------------------------------------------------
SP == " "
NL == "\n"
TAB == "\t"

\* \s of Python's re for the characters a terminal prints
IsSpace(c) == c \in {SP, NL, TAB}

\* . of Python's re without DOTALL: any character but the line break
IsDot(c) == c # NL

\* the literal of the pattern; a word matches it when it starts with it
StartsWithCreated(w) == w \in {"created", "created."}

Max(S) == CHOOSE x \in S : \A y \in S : y <= x
Min(S) == CHOOSE x \in S : \A y \in S : x <= y

Undefined == [defined |-> FALSE, value |-> <<>>]
Defined(v) == [defined |-> TRUE, value |-> v]

\* ------------------------------------------------------------------------
\* get_resource
\* ------------------------------------------------------------------------
\* variant: the pattern written with one blank, "^(.+) created"
RestMatches_oneSpace(out, e) ==
    /\ e + 2 <= Len(out)
    /\ out[e + 1] = SP
    /\ StartsWithCreated(out[e + 2])
\* \s+created tried right after position e: at least one whitespace
\* character, then the literal
RestMatches(out, e) ==
    \E k \in 1..(Len(out) - e) :
        /\ \A i \in (e + 1)..(e + k) : IsSpace(out[i])
        /\ e + k + 1 <= Len(out)
        /\ StartsWithCreated(out[e + k + 1])

\* the longest prefix (.+) can take: ^ anchors at the start of the text and
\* . stops at the first line break
DotPlusMax(out) ==
    IF \E i \in 1..Len(out) : ~IsDot(out[i])
    THEN Min({i \in 1..Len(out) : ~IsDot(out[i])}) - 1
    ELSE Len(out)

\* greedy (.+): the longest prefix first, giving back one token at a time
RECURSIVE Backtrack(_, _)
Backtrack(out, e) ==
    IF e < 1 THEN Undefined
    ELSE IF RestMatches(out, e) THEN Defined(SubSeq(out, 1, e))
    ELSE Backtrack(out, e - 1)

\* variant: a lazy group, "^(.+?)\s+created"
re_search_firstFit(out) ==
    LET fits == {e \in 1..DotPlusMax(out) : RestMatches(out, e)}
    IN  IF fits = {} THEN Undefined ELSE Defined(SubSeq(out, 1, Min(fits)))
\* re.search(r"^(.+)\s+created", out): the match's group(1), or None
re_search(out) == Backtrack(out, DotPlusMax(out))

get_resource(captured_io) ==
    LET matches == re_search(captured_io)
    IN  IF matches.defined
        THEN [raised |-> FALSE, value |-> matches.value]
        ELSE [raised |-> TRUE, value |-> <<>>]

\* ------------------------------------------------------------------------
\* Notebooks: the kubectl cells, top to bottom
\* ------------------------------------------------------------------------
Notebooks == {"iris_katib", "churn_katib", "pytorch_katib", "titan"}

\* metadata.name of the manifest the notebook writes
ManifestName(n) ==
    CASE n = "iris_katib" -> "pytorchjob-ex2"
      [] n = "churn_katib" -> "churn"
      [] n = "pytorch_katib" -> "pytorchjob-ex"
      [] n = "titan" -> "titan"

\* how kubectl names that resource in its messages: <kind>.<group>/<name>
ResourceRef(n) ==
    CASE n = "iris_katib" -> "experiment.kubeflow.org/pytorchjob-ex2"
      [] n = "churn_katib" -> "experiment.kubeflow.org/churn"
      [] n = "pytorch_katib" -> "experiment.kubeflow.org/pytorchjob-ex"
      [] n = "titan" -> "tfjob.kubeflow.org/titan"

\* the kubectl cells of each notebook in file order
Cells(n) ==
    CASE n = "iris_katib" ->
            <<"apply", "assign", "describe", "get", "get", "describe",
              "delete_file", "logs">>
      [] n = "churn_katib" ->
            <<"apply", "assign", "describe", "get", "get", "describe",
              "delete_file", "logs">>
      [] n = "pytorch_katib" ->
            <<"apply", "assign", "describe", "get", "describe",
              "delete_file", "logs">>
      [] n = "titan" ->
            <<"create", "assign", "describe", "get", "get", "logs",
              "delete_var", "logs">>

\* the resource name a cell's command spells out (a label selector's value,
\* a pod name without its -worker-0 suffix, the argument of logs -f); ""
\* where the command names none or takes it from a variable or a file
CellNames(n) ==
    CASE n = "iris_katib" ->
            <<"", "", "", "pytorchjob-ex2", "", "", "", "pytorchjob-ex2">>
      [] n = "churn_katib" ->
            <<"", "", "", "", "", "", "", "churn">>
      [] n = "pytorch_katib" ->
            <<"", "", "", "pytorchjob-ex", "", "", "pytorchjob-example">>
      [] n = "titan" ->
            <<"", "", "", "titan", "", "titan", "", "titan">>

CellOp == IF ~halted /\ cell \in 1..Len(Cells(nb)) THEN Cells(nb)[cell] ELSE "none"

AssignIndex(n) == Min({i \in 1..Len(Cells(n)) : Cells(n)[i] = "assign"})
\* the apply / create cell and the delete cell
SubmitIndex(n) ==
    Min({i \in 1..Len(Cells(n)) : Cells(n)[i] \in {"apply", "create"}})
DeleteIndex(n) ==
    Min({i \in 1..Len(Cells(n)) : Cells(n)[i] \in {"delete_file", "delete_var"}})

\* ------------------------------------------------------------------------
\* kubectl, as the notebook sees it: the text `! kubectl ...` prints.  The
\* `!` shell escape runs the command on a pseudo-terminal, so the text that
\* %%capture stores as stdout holds the command's stdout and stderr in the
\* order they were written.
\* ------------------------------------------------------------------------
\* a warning the API server may attach to a request (written before the result)
DeprecationWarning == <<"Warning:", SP, "deprecated", NL>>
\* kubectl apply on a resource that lacks the last-applied annotation:
\* "... kubectl apply should only be used on resources created declaratively ..."
AnnotationWarning ==
    <<"Warning:", SP, "resources", SP, "created", SP, "declaratively", NL>>

CreatedOutputs(n) ==
    {pre \o <<ResourceRef(n), SP, "created", NL>> : pre \in {<<>>, DeprecationWarning}}

ConfiguredOutputs(n) ==
    {pre \o <<ResourceRef(n), SP, word, NL>> :
        pre \in {<<>>, AnnotationWarning}, word \in {"configured", "unchanged"}}

AlreadyExistsOutput(n) ==
    <<"Error", SP, "(AlreadyExists):", SP, ResourceRef(n), SP, "already", SP,
      "exists", NL>>

\* ------------------------------------------------------------------------
\* Notebook cells
\* ------------------------------------------------------------------------
\* %%capture kubectl_output --no-stderr / ! kubectl apply -f $FILE
RunApply ==
    /\ CellOp = "apply"
    /\ IF ManifestName(nb) \in cluster
       THEN /\ \E out \in ConfiguredOutputs(nb) : kubectl_output' = Defined(out)
            /\ kubectl_result' = "configured"
            /\ UNCHANGED cluster
       ELSE /\ \E out \in CreatedOutputs(nb) : kubectl_output' = Defined(out)
            /\ kubectl_result' = "created"
            /\ cluster' = cluster \cup {ManifestName(nb)}
    /\ cell' = cell + 1
    /\ UNCHANGED <<nb, halted, EXPERIMENT, addressed, trVars, dfVars>>

\* %%capture tf_output --no-stderr / ! kubectl create -f $KUBERNETES_FILE
RunCreate ==
    /\ CellOp = "create"
    /\ IF ManifestName(nb) \in cluster
       THEN /\ kubectl_output' = Defined(AlreadyExistsOutput(nb))
            /\ kubectl_result' = "exists"
            /\ UNCHANGED cluster
       ELSE /\ \E out \in CreatedOutputs(nb) : kubectl_output' = Defined(out)
            /\ kubectl_result' = "created"
            /\ cluster' = cluster \cup {ManifestName(nb)}
    /\ cell' = cell + 1
    /\ UNCHANGED <<nb, halted, EXPERIMENT, addressed, trVars, dfVars>>

\* variant: a helper that runs kubectl apply again when the pattern is missing
RunAssign_retry ==
    /\ CellOp = "assign"
    /\ kubectl_output.defined
    /\ LET r == get_resource(kubectl_output.value)
       IN  IF r.raised
           THEN /\ \E out \in ConfiguredOutputs(nb) : kubectl_output' = Defined(out)
                /\ kubectl_result' = "configured"
                /\ UNCHANGED <<cell, EXPERIMENT, halted>>
           ELSE /\ EXPERIMENT' = Defined(r.value)
                /\ cell' = cell + 1
                /\ UNCHANGED <<halted, kubectl_output, kubectl_result>>
    /\ UNCHANGED <<nb, cluster, addressed, trVars, dfVars>>

\* variant: the call wrapped in try / except: pass
RunAssign_swallow ==
    /\ CellOp = "assign"
    /\ kubectl_output.defined
    /\ LET r == get_resource(kubectl_output.value)
       IN  EXPERIMENT' = IF r.raised THEN EXPERIMENT ELSE Defined(r.value)
    /\ cell' = cell + 1
    /\ UNCHANGED <<nb, halted, kubectl_output, cluster, kubectl_result,
                   addressed, trVars, dfVars>>

\* variant: EXPERIMENT = None placed before the call
RunAssign_reset ==
    /\ CellOp = "assign"
    /\ kubectl_output.defined
    /\ LET r == get_resource(kubectl_output.value)
       IN  IF r.raised
           THEN /\ halted' = TRUE
                /\ EXPERIMENT' = Undefined
                /\ UNCHANGED cell
           ELSE /\ EXPERIMENT' = Defined(r.value)
                /\ cell' = cell + 1
                /\ UNCHANGED halted
    /\ UNCHANGED <<nb, kubectl_output, cluster, kubectl_result, addressed, trVars, dfVars>>

\* EXPERIMENT = get_resource(kubectl_output): the assignment happens only
\* when the call returns; an exception ends the run
RunAssign ==
    /\ CellOp = "assign"
    /\ kubectl_output.defined
    /\ LET r == get_resource(kubectl_output.value)
       IN  IF r.raised
           THEN /\ halted' = TRUE
                /\ UNCHANGED <<cell, EXPERIMENT>>
           ELSE /\ EXPERIMENT' = Defined(r.value)
                /\ cell' = cell + 1
                /\ UNCHANGED halted
    /\ UNCHANGED <<nb, kubectl_output, cluster, kubectl_result, addressed, trVars, dfVars>>

\* ! kubectl describe $EXPERIMENT
RunDescribe ==
    /\ CellOp = "describe"
    /\ addressed' = EXPERIMENT.value
    /\ cell' = cell + 1
    /\ UNCHANGED <<nb, halted, kubectl_output, EXPERIMENT, cluster,
                   kubectl_result, trVars, dfVars>>

\* ! kubectl get ... / ! kubectl logs ...: read-only
RunGet ==
    /\ CellOp = "get"
    /\ cell' = cell + 1
    /\ UNCHANGED <<nb, halted, kubectl_output, EXPERIMENT, cluster,
                   kubectl_result, addressed, trVars, dfVars>>

RunLogs ==
    /\ CellOp = "logs"
    /\ cell' = cell + 1
    /\ UNCHANGED <<nb, halted, kubectl_output, EXPERIMENT, cluster,
                   kubectl_result, addressed, trVars, dfVars>>

\* variant: kubectl delete -f $FILE --dry-run
RunDeleteFile_dryRun ==
    /\ CellOp = "delete_file"
    /\ cell' = cell + 1
    /\ UNCHANGED <<nb, halted, kubectl_output, EXPERIMENT, cluster,
                   kubectl_result, addressed, trVars, dfVars>>

\* ! kubectl delete -f $FILE: deletes the resource the manifest names
RunDeleteFile ==
    /\ CellOp = "delete_file"
    /\ cluster' = cluster \ {ManifestName(nb)}
    /\ cell' = cell + 1
    /\ UNCHANGED <<nb, halted, kubectl_output, EXPERIMENT, kubectl_result,
                   addressed, trVars, dfVars>>

\* ! kubectl delete $TF_JOB: deletes what the variable's text names
RunDeleteVar ==
    /\ CellOp = "delete_var"
    /\ addressed' = EXPERIMENT.value
    /\ cluster' = IF EXPERIMENT.value = <<ResourceRef(nb)>>
                  THEN cluster \ {ManifestName(nb)}
                  ELSE cluster
    /\ cell' = cell + 1
    /\ UNCHANGED <<nb, halted, kubectl_output, EXPERIMENT, kubectl_result, trVars, dfVars>>

\* The same kernel, used again.  Kernel variables outlive a run: a run that
\* ended (at its last cell or on an exception) can be started again from the
\* top, and after an exception the user can run single cells by hand.
\* "Run All" once more; the new run has addressed nothing yet
RunAgain ==
    /\ nb \in Notebooks
    /\ halted \/ cell > Len(Cells(nb))
    /\ cell' = 1
    /\ halted' = FALSE
    /\ addressed' = <<>>
    /\ UNCHANGED <<nb, kubectl_output, EXPERIMENT, cluster, kubectl_result, trVars, dfVars>>

\* ! kubectl describe $EXPERIMENT, run by hand after the run stopped
DescribeByHand ==
    /\ nb \in Notebooks
    /\ halted
    /\ \E i \in DOMAIN Cells(nb) : Cells(nb)[i] = "describe"
    /\ addressed' = EXPERIMENT.value
    /\ UNCHANGED <<nb, cell, halted, kubectl_output, EXPERIMENT, cluster,
                   kubectl_result, trVars, dfVars>>

\* ! kubectl delete $TF_JOB, run by hand after the run stopped
DeleteByHand ==
    /\ nb \in Notebooks
    /\ halted
    /\ \E i \in DOMAIN Cells(nb) : Cells(nb)[i] = "delete_var"
    /\ addressed' = EXPERIMENT.value
    /\ cluster' = IF EXPERIMENT.value = <<ResourceRef(nb)>>
                  THEN cluster \ {ManifestName(nb)}
                  ELSE cluster
    /\ UNCHANGED <<nb, cell, halted, kubectl_output, EXPERIMENT,
                   kubectl_result, trVars, dfVars>>

\* ------------------------------------------------------------------------
\* Command-line values.  A value keeps its lexical class: an integer literal
\* (n), a decimal literal (n thousandths), any other text (s), an unresolved
\* ${trialParameters.<s>} placeholder, or no value (a switch).
\* ------------------------------------------------------------------------
I(n) == [lex |-> "int", n |-> n, s |-> ""]
F(milli) == [lex |-> "float", n |-> milli, s |-> ""]
S(str) == [lex |-> "str", n |-> 0, s |-> str]
PH(name) == [lex |-> "ph", n |-> 0, s |-> name]
B(b) == [lex |-> "bool", n |-> IF b THEN 1 ELSE 0, s |-> ""]
NoValue == [lex |-> "none", n |-> 0, s |-> ""]

Arg(flag, val) == [flag |-> flag, val |-> val]

\* ------------------------------------------------------------------------
\* Manifests
\* ------------------------------------------------------------------------
\* feasibleSpace: min and max keep the literal the manifest writes, list
\* keeps the order (and any repetition) of its entries
\* variant: min and max written the other way round
DoubleParam_swapped(name, lo, hi) ==
    [name |-> name, parameterType |-> "double", min |-> hi, max |-> lo,
     list |-> <<>>]
DoubleParam(name, lo, hi) ==
    [name |-> name, parameterType |-> "double", min |-> lo, max |-> hi,
     list |-> <<>>]
IntParam(name, lo, hi) ==
    [name |-> name, parameterType |-> "int", min |-> lo, max |-> hi,
     list |-> <<>>]
CategoricalParam(name, choices) ==
    [name |-> name, parameterType |-> "categorical", min |-> NoValue,
     max |-> NoValue, list |-> choices]
TrialParameter(name, reference) == [name |-> name, reference |-> reference]

\* Day4 tfjob.yaml: Experiment tfjob-e2311
Experiment_tfjob_e2311 ==
    [kind |-> "Experiment", apiVersion |-> "kubeflow.org/v1alpha3",
     id |-> "tfjob-e2311", name |-> "tfjob-e2311",
     objectiveMetricName |-> "accuracy", collector |-> "StdOut",
     trialTemplate |-> {"primaryContainerName", "trialParameters", "trialSpec"},
     parameters |-> {DoubleParam("learning_rate", F(1), F(5)),
                     CategoricalParam("optimizer", <<"rmsprop", "adam">>)},
     trialParameters |-> {TrialParameter("learningRate", "learning_rate"),
                          TrialParameter("optimizer", "optimizer")},
     replicas |-> 1,
     command |-> [Worker |->
        [script |-> "/tfjob.py",
         cmd |-> <<Arg("--batch_size", I(150)),
                   Arg("--learning_rate", PH("learningRate")),
                   Arg("--optimizer", PH("optimizer"))>>]]]

\* KatibHyperparameterChurn.ipynb: Experiment churn
Experiment_churn ==
    [kind |-> "Experiment", apiVersion |-> "kubeflow.org/v1beta1",
     id |-> "churn-experiment", name |-> "churn",
     objectiveMetricName |-> "accuracy", collector |-> "StdOut",
     trialTemplate |-> {"primaryContainerName", "trialParameters", "trialSpec"},
     parameters |-> {DoubleParam("learning_rate", F(10), F(100)),
                     IntParam("batch_size", I(50), I(100)),
                     CategoricalParam("optimizer", <<"rmsprop", "adam">>)},
     trialParameters |-> {TrialParameter("learningRate", "learning_rate"),
                          TrialParameter("batchSize", "batch_size"),
                          TrialParameter("optimizer", "optimizer")},
     replicas |-> 1,
     command |-> [Worker |->
        [script |-> "/tfjobchurn.py",
         cmd |-> <<Arg("--batch_size", PH("batchSize")),
                   Arg("--learning_rate", PH("learningRate")),
                   Arg("--optimizer", PH("optimizer"))>>]]]

PyTorchCommand(script, epochs) ==
    [script |-> script,
     cmd |-> <<Arg("--epochs", I(epochs)),
               Arg("--lr", PH("learningRate")),
               Arg("--momentum", PH("momentum"))>>]

\* KatibHyperparameterPytorchIris.ipynb: Experiment pytorchjob-ex2
Experiment_pytorchjob_ex2 ==
    [kind |-> "Experiment", apiVersion |-> "kubeflow.org/v1beta1",
     id |-> "pytorchjob-ex2", name |-> "pytorchjob-ex2",
     objectiveMetricName |-> "loss", collector |-> "StdOut",
     trialTemplate |-> {"primaryContainerName", "trialParameters", "trialSpec"},
     parameters |-> {DoubleParam("lr", F(10), F(50)),
                     DoubleParam("momentum", F(500), F(900))},
     trialParameters |-> {TrialParameter("learningRate", "lr"),
                          TrialParameter("momentum", "momentum")},
     replicas |-> 2,
     command |-> [Master |-> PyTorchCommand("/opt/iris.py", 10),
                  Worker |-> PyTorchCommand("/opt/iris.py", 10)]]

\* the PyTorch Katib notebook: Experiment pytorchjob-ex
Experiment_pytorchjob_ex ==
    [kind |-> "Experiment", apiVersion |-> "kubeflow.org/v1beta1",
     id |-> "pytorchjob-ex", name |-> "pytorchjob-ex",
     objectiveMetricName |-> "loss", collector |-> "StdOut",
     trialTemplate |-> {"primaryContainerName", "trialParameters", "trialSpec"},
     parameters |-> {DoubleParam("lr", F(10), F(50)),
                     DoubleParam("momentum", F(500), F(900))},
     trialParameters |-> {TrialParameter("learningRate", "lr"),
                          TrialParameter("momentum", "momentum")},
     replicas |-> 2,
     command |-> [Master |-> PyTorchCommand("/opt/mnist.py", 1),
                  Worker |-> PyTorchCommand("/opt/mnist.py", 1)]]

TFJobCommand ==
    [script |-> "/tfjobtitan.py",
     cmd |-> <<Arg("--batch_size", I(10)),
               Arg("--learning_rate", F(1)),
               Arg("--optimizer", S("sgd"))>>]

TFJob(id, name) ==
    [kind |-> "TFJob", apiVersion |-> "kubeflow.org/v1", id |-> id, name |-> name,
     objectiveMetricName |-> "", collector |-> "",
     trialTemplate |-> {},
     parameters |-> {}, trialParameters |-> {},
     replicas |-> 2,
     command |-> [Worker |-> TFJobCommand]]

\* the TFJob notebook's manifest, and the TFJob manifest after it
TFJob_titan == TFJob("titan", "titan")
TFJob_churn == TFJob("churn-tfjob", "churn")

Experiments ==
    {Experiment_tfjob_e2311, Experiment_churn, Experiment_pytorchjob_ex2,
     Experiment_pytorchjob_ex}
TFJobs == {TFJob_titan, TFJob_churn}
Manifests == Experiments \cup TFJobs

ManifestOf(id) == CHOOSE m \in Manifests : m.id = id

\* ------------------------------------------------------------------------
\* The Katib controller's part: sample the search space, fill the template
\* ------------------------------------------------------------------------
\* a numeric literal in thousandths
Milli(v) == IF v.lex = "int" THEN v.n * 1000 ELSE v.n

\* values a suggestion may take for one parameter (the ends of the range)
FeasibleSpace(p) ==
    CASE p.parameterType = "double" -> {F(Milli(p.min)), F(Milli(p.max))}
      [] p.parameterType = "int" -> {I(p.min.n), I(p.max.n)}
      [] p.parameterType = "categorical" -> {S(p.list[i]) : i \in DOMAIN p.list}
      [] OTHER -> {}

Assignments(m) ==
    LET names == {p.name : p \in m.parameters}
        values == UNION {FeasibleSpace(p) : p \in m.parameters}
    IN  {a \in [names -> values] :
            \A p \in m.parameters : a[p.name] \in FeasibleSpace(p)}

\* variant: a placeholder resolved by the search parameter it references
Substitute_byReference(m, a, arg) ==
    IF arg.val.lex = "ph" /\ arg.val.s \in DOMAIN a
    THEN Arg(arg.flag, a[arg.val.s])
    ELSE arg
\* ${trialParameters.X} becomes the value assigned to the parameter that
\* trialParameters entry X references; anything else stays as written
Substitute(m, a, arg) ==
    IF arg.val.lex # "ph" THEN arg
    ELSE LET tps == {tp \in m.trialParameters :
                        tp.name = arg.val.s /\ tp.reference \in DOMAIN a}
         IN  IF tps = {} THEN arg
             ELSE Arg(arg.flag, a[(CHOOSE tp \in tps : TRUE).reference])

Render(m, a, c) ==
    [script |-> c.script,
     cmd |-> [i \in DOMAIN c.cmd |-> Substitute(m, a, c.cmd[i])]]

\* ------------------------------------------------------------------------
\* argparse
\* ------------------------------------------------------------------------
Option(flag, dest, type, default) ==
    [flag |-> flag, dest |-> dest, type |-> type, default |-> default]

\* variant: --lr declared with type=int
IrisParser_lrInt ==
    {Option("--batch-size", "batch_size", "int", I(64)),
     Option("--test-batch-size", "test_batch_size", "int", I(1000)),
     Option("--epochs", "epochs", "int", I(30)),
     Option("--lr", "lr", "int", F(10)),
     Option("--momentum", "momentum", "float", F(500)),
     Option("--no-cuda", "no_cuda", "store_true", B(FALSE)),
     Option("--seed", "seed", "int", I(1)),
     Option("--log-interval", "log_interval", "int", I(10)),
     Option("--log-path", "log_path", "str", S("")),
     Option("--save-model", "save_model", "store_true", B(FALSE)),
     Option("--backend", "backend", "str", S("gloo"))}
\* iris.py main(): the options the parser declares
IrisParser ==
    {Option("--batch-size", "batch_size", "int", I(64)),
     Option("--test-batch-size", "test_batch_size", "int", I(1000)),
     Option("--epochs", "epochs", "int", I(30)),
     Option("--lr", "lr", "float", F(10)),
     Option("--momentum", "momentum", "float", F(500)),
     Option("--no-cuda", "no_cuda", "store_true", B(FALSE)),
     Option("--seed", "seed", "int", I(1)),
     Option("--log-interval", "log_interval", "int", I(10)),
     Option("--log-path", "log_path", "str", S("")),
     Option("--save-model", "save_model", "store_true", B(FALSE)),
     Option("--backend", "backend", "str", S("gloo"))}

\* tfjobtitan.py __main__: the options the parser declares
TfParser ==
    {Option("--batch_size", "batch_size", "int", I(12)),
     Option("--learning_rate", "learning_rate", "float", F(1)),
     Option("--optimizer", "optimizer", "str", S("adam"))}

\* the default each help text states, where it states one
IrisHelpDefaults ==
    [batch_size |-> I(64), test_batch_size |-> I(1000), epochs |-> I(10),
     lr |-> F(10), momentum |-> F(500), seed |-> I(1)]
TfHelpDefaults == [batch_size |-> I(128)]

\* type=int / type=float / type=str applied to the argument's text
Convert(type, val) ==
    CASE type = "int" ->
            IF val.lex = "int" THEN [ok |-> TRUE, v |-> I(val.n)]
            ELSE [ok |-> FALSE, v |-> val]
      [] type = "float" ->
            IF val.lex = "int" THEN [ok |-> TRUE, v |-> F(val.n * 1000)]
            ELSE IF val.lex = "float" THEN [ok |-> TRUE, v |-> F(val.n)]
            ELSE [ok |-> FALSE, v |-> val]
      [] type = "str" ->
            IF val.lex = "none" THEN [ok |-> FALSE, v |-> val]
            ELSE [ok |-> TRUE, v |-> val]
      [] type = "store_true" -> [ok |-> TRUE, v |-> B(TRUE)]

Defaults(parser) ==
    [d \in {o.dest : o \in parser} |-> (CHOOSE o \in parser : o.dest = d).default]

\* the proper-prefix relation on the option texts of the model
IsProperPrefix(a, b) ==
    <<a, b>> \in {<<"--epoch", "--epochs">>,
                  <<"--batch", "--batch-size">>,
                  <<"--batch", "--batch_size">>}

\* the declared options an argument's option text selects: the one it spells
\* out, or else every one it is a prefix of (allow_abbrev)
Resolve(parser, flag) ==
    IF \E o \in parser : o.flag = flag
    THEN {o \in parser : o.flag = flag}
    ELSE {o \in parser : IsProperPrefix(flag, o.flag)}

\* parser.parse_known_args(): options in order, the last occurrence wins; an
\* option text that selects no declared option goes to the left-over list
\* with its value; one that selects several, and a value its option's type
\* rejects, end the process with a usage error
RECURSIVE ParseFrom(_, _, _, _)
ParseFrom(parser, av, ns, extras) ==
    IF av = <<>> THEN [ok |-> TRUE, ns |-> ns, extras |-> extras]
    ELSE LET a == Head(av)
             opts == Resolve(parser, a.flag)
         IN  IF opts = {}
             THEN ParseFrom(parser, Tail(av), ns, Append(extras, a))
             ELSE IF Cardinality(opts) > 1
             THEN [ok |-> FALSE, ns |-> ns, extras |-> extras]
             ELSE LET o == CHOOSE o \in opts : TRUE
                      c == Convert(o.type, a.val)
                  IN  IF ~c.ok
                      THEN [ok |-> FALSE, ns |-> ns, extras |-> extras]
                      ELSE ParseFrom(parser, Tail(av),
                                     [ns EXCEPT ![o.dest] = c.v], extras)

\* variant: left-over arguments are an error
parse_known_args_strict(parser, av) ==
    LET r == ParseFrom(parser, av, Defaults(parser), <<>>)
    IN  [r EXCEPT !.ok = r.ok /\ r.extras = <<>>]
parse_known_args(parser, av) == ParseFrom(parser, av, Defaults(parser), <<>>)

\* parser.parse_args(): parse_known_args, and a usage error if anything is
\* left over
parse_args(parser, av) ==
    LET r == parse_known_args(parser, av)
    IN  [r EXCEPT !.ok = r.ok /\ r.extras = <<>>]

\* ------------------------------------------------------------------------
\* Who starts a trainer
\* ------------------------------------------------------------------------
MaxArgs == 2

\* iris.py and tfjobtitan.py are the trainers whose source the notebooks hold
ProgramOf(script) ==
    CASE script \in {"iris.py", "/opt/iris.py"} -> "iris"
      [] script \in {"tfjobtitan.py", "/tfjobtitan.py"} -> "tf"
      [] OTHER -> "external"

\* %run $TRAINER_FILE --epochs 20 --log-interval 128
IrisRunCell ==
    [script |-> "iris.py",
     cmd |-> <<Arg("--epochs", I(20)), Arg("--log-interval", I(128))>>]
\* %run $TRAINER_FILE --optimizer 'sgd'
TfRunCell ==
    [script |-> "tfjobtitan.py", cmd |-> <<Arg("--optimizer", S("sgd"))>>]

\* arguments a user may type after the script's name
IrisOptions ==
    {Arg("--epochs", I(0)), Arg("--epochs", I(2)), Arg("--epochs", F(1500)),
     Arg("--log-interval", I(0)), Arg("--log-interval", I(1)),
     Arg("--batch-size", I(40)), Arg("--batch-size", I(0)),
     Arg("--lr", I(1)), Arg("--lr", F(20)), Arg("--momentum", F(900)),
     Arg("--log-path", S("/katib/mnist.log")),
     Arg("--learning_rate", F(20)),
     Arg("--epoch", I(2)),
     Arg("--save-model", NoValue)}
TfOptions ==
    {Arg("--batch_size", I(10)), Arg("--batch_size", I(0)),
     Arg("--batch_size", S("x")),
     Arg("--learning_rate", F(5)), Arg("--optimizer", S("sgd")),
     Arg("--optimizer", S("bogus")),
     Arg("--epochs", I(3)), Arg("--steps", I(2)), Arg("--batch-size", I(5)),
     Arg("--buffer-size", I(7)), Arg("--learning-rate", F(500)),
     Arg("--batch", I(10))}

CommandLines(script) ==
    LET options == IF ProgramOf(script) = "iris" THEN IrisOptions ELSE TfOptions
    IN  {[script |-> script, cmd |-> av] :
            av \in UNION {[1..n -> options] : n \in 0..MaxArgs}}

Launchers ==
    {[by |-> "experiment", id |-> m.id] : m \in Experiments}
    \cup {[by |-> "tfjob", id |-> m.id] : m \in TFJobs}
    \cup {[by |-> "run", id |-> c] : c \in {"iris.py", "tfjobtitan.py"}}
    \cup {[by |-> "cli", id |-> c] : c \in {"iris.py", "tfjobtitan.py"}}

HasFlag(av, flag) == \E i \in DOMAIN av : av[i].flag = flag
\* the value of the last occurrence of the flag
LastValue(av, flag) ==
    av[Max({i \in DOMAIN av : av[i].flag = flag})].val

\* ------------------------------------------------------------------------
\* Data and training constants
\* ------------------------------------------------------------------------
\* rows of the Titanic table read_csv returns (a remote file)
TitanicRows == 20

\* load_iris(): 150 rows
IrisRows == 150
\* test_size=0.2 in both trainers, as one part in TestShare
TestShare == 5
TestRows(rows) == (rows + TestShare - 1) \div TestShare
TrainRows(rows) == rows - TestRows(rows)

\* multi_worker_model.fit(..., epochs=12, steps_per_epoch=5)
FitEpochs == 12
StepsPerEpoch == 5
\* train_dataset.cache().shuffle(100).repeat()
ShuffleBuffer == 100
\* variant: the training dataset without .repeat()
TrainRepeats_once == FALSE
\* .repeat(): the training dataset never runs out
TrainRepeats == TRUE

\* optimizer names model.compile() resolves
KerasOptimizers ==
    {"sgd", "rmsprop", "adam", "adadelta", "adagrad", "adamax", "nadam", "ftrl"}

\* len(train_loader)
NumBatches(rows, batch_size) == (rows + batch_size - 1) \div batch_size

\* variant: range(1, args.epochs)
EpochRange_short(n) == 1..(n - 1)
\* range(1, args.epochs + 1)
EpochRange(n) == 1..n

\* batch_idx % args.log_interval == 0, for a non-zero interval of either sign
Abs(n) == IF n < 0 THEN 0 - n ELSE n
\* variant: the condition dropped, every batch is logged
IsLogBatch_always(idx, interval) == TRUE
IsLogBatch(idx, interval) == idx % Abs(interval) = 0

\* ------------------------------------------------------------------------
\* Log records
\* ------------------------------------------------------------------------
\* logging.basicConfig(...) without filename= / stream=, and the implicit
\* basicConfig() of logging.info() on a root logger without handlers:
\* a StreamHandler on sys.stderr
DefaultStream == "stderr"

\* variant: the training line in the {metricName: ..., metricValue: ...} format
TrainMessage_json(e, b) ==
    [src |-> "train", epoch |-> e, batch |-> b, format |-> "metricName",
     keys |-> <<"loss">>]
\* "Train Epoch: {} [{}/{} ({:.0f}%)]\tloss={:.4f}"
TrainMessage(e, b) ==
    [src |-> "train", epoch |-> e, batch |-> b, format |-> "key=value",
     keys |-> <<"loss">>]

\* "{metricName: accuracy, metricValue: {:.4f}};{metricName: loss, metricValue: {:.4f}}\n"
TestMessage(e) ==
    [src |-> "test", epoch |-> e, batch |-> 0, format |-> "metricName",
     keys |-> <<"accuracy", "loss">>]

\* "loss={:.4f}" / "accuracy={:.4f}"
EvalMessage(key) ==
    [src |-> "main", epoch |-> 0, batch |-> 0, format |-> "key=value",
     keys |-> <<key>>]

\* logging.info(msg): one record on the handler's stream
Emit(msg) ==
    Append(log, [stream |-> handler, msg |-> msg])

\* ------------------------------------------------------------------------
\* Starting a trainer
\* ------------------------------------------------------------------------
\* the Katib controller creates a trial from the experiment's template
RenderTrial ==
    /\ tpc = "submit"
    /\ launch.by = "experiment"
    /\ LET m == ManifestOf(launch.id)
       IN  \E a \in Assignments(m) :
            /\ commands' = [r \in DOMAIN m.command |-> Render(m, a, m.command[r])]
            /\ launch' = [launch EXCEPT !.assignment = a, !.world = m.replicas]
    /\ tpc' = "created"
    /\ UNCHANGED <<argv, prog, args, unknown, handler, used, epoch, batch_idx,
                   steps, cursor, evals, log, nbVars, dfVars>>

\* the TFJob controller creates the workers with the manifest's command
CreateJob ==
    /\ tpc = "submit"
    /\ launch.by = "tfjob"
    /\ LET m == ManifestOf(launch.id)
       IN  /\ commands' = m.command
           /\ launch' = [launch EXCEPT !.world = m.replicas]
    /\ tpc' = "created"
    /\ UNCHANGED <<argv, prog, args, unknown, handler, used, epoch, batch_idx,
                   steps, cursor, evals, log, nbVars, dfVars>>

\* the %run cell below each trainer
RunCell ==
    /\ tpc = "submit"
    /\ launch.by = "run"
    /\ commands' = [local |-> IF ProgramOf(launch.id) = "iris"
                              THEN IrisRunCell ELSE TfRunCell]
    /\ tpc' = "created"
    /\ UNCHANGED <<launch, argv, prog, args, unknown, handler, used, epoch,
                   batch_idx, steps, cursor, evals, log, nbVars, dfVars>>

\* python <script> <arguments> typed by a user
CommandLine ==
    /\ tpc = "submit"
    /\ launch.by = "cli"
    /\ \E c \in CommandLines(launch.id) : commands' = [local |-> c]
    /\ tpc' = "created"
    /\ UNCHANGED <<launch, argv, prog, args, unknown, handler, used, epoch,
                   batch_idx, steps, cursor, evals, log, nbVars, dfVars>>

\* one replica's container starts its command
Exec ==
    /\ tpc = "created"
    /\ \E r \in DOMAIN commands :
        /\ argv' = commands[r].cmd
        /\ prog' = ProgramOf(commands[r].script)
        /\ launch' = [launch EXCEPT !.replica = r]
        /\ tpc' = IF ProgramOf(commands[r].script) = "external"
                  THEN "external" ELSE "parse"
    /\ UNCHANGED <<commands, args, unknown, handler, used, epoch, batch_idx,
                   steps, cursor, evals, log, nbVars, dfVars>>

\* ------------------------------------------------------------------------
\* iris.py
\* ------------------------------------------------------------------------
\* args = parser.parse_args()
IrisParse ==
    /\ prog = "iris" /\ tpc = "parse"
    /\ LET r == parse_args(IrisParser, argv)
       IN  IF r.ok
           THEN /\ args' = r.ns
                /\ tpc' = "setup"
           ELSE /\ tpc' = "usage_error"
                /\ UNCHANGED args
    /\ UNCHANGED <<launch, commands, argv, prog, unknown, handler, used, epoch,
                   batch_idx, steps, cursor, evals, log, nbVars, dfVars>>

\* WORLD_SIZE = int(os.environ.get("WORLD_SIZE", 1)): the operator sets the
\* variable to the job's replica count, a %run cell or a shell leaves it unset
WORLD_SIZE == launch.world

\* variant: return dist.is_available()
should_distribute_anyWorld(available) == available
\* dist.is_available() and WORLD_SIZE > 1
should_distribute(available) == available /\ WORLD_SIZE > 1

\* dist.is_available() and dist.is_initialized()
is_distributed(available, initialized) == available /\ initialized

\* main() from logging.basicConfig to the optimizer.  Whether the build has
\* torch.distributed is a fact of the environment; init_process_group is
\* the only call that initialises the process group; DataLoader refuses a
\* batch size that is not positive; Distributor is the wrapper class main()
\* picks (DistributedDataParallel or DistributedDataParallelCPU).
IrisSetup ==
    /\ prog = "iris" /\ tpc = "setup"
    /\ handler' = IF args.log_path = S("") THEN DefaultStream ELSE "file"
    /\ \E available \in BOOLEAN :
        LET initialized == should_distribute(available)
            init == IF initialized THEN <<"init_process_group">> ELSE <<>>
            wrap == is_distributed(available, initialized)
            model == IF wrap THEN "Distributor(Net)" ELSE "Net"
        IN  IF args.batch_size.n <= 0 \/ args.test_batch_size.n <= 0
            THEN /\ used' = [dist_available |-> available,
                             process_group |-> initialized,
                             calls |-> init \o <<"DataLoader">>]
                 /\ tpc' = "ValueError"
                 /\ UNCHANGED epoch
            ELSE /\ used' = [lr |-> args.lr, momentum |-> args.momentum,
                             batch_size |-> args.batch_size.n,
                             dist_available |-> available,
                             process_group |-> initialized,
                             model |-> model,
                             optimizer_params |-> model,
                             calls |-> init \o <<"DataLoader", "DataLoader", "Net">>
                                       \o (IF wrap THEN <<"Distributor">> ELSE <<>>)
                                       \o <<"SGD">>]
                 /\ epoch' = 0
                 /\ tpc' = "loop"
    /\ UNCHANGED <<launch, commands, argv, prog, args, unknown, batch_idx,
                   steps, cursor, evals, log, nbVars, dfVars>>

\* for epoch in range(1, args.epochs + 1)
IrisEpoch ==
    /\ prog = "iris" /\ tpc = "loop"
    /\ IF epoch + 1 \in EpochRange(args.epochs.n)
       THEN /\ epoch' = epoch + 1
            /\ batch_idx' = 0
            /\ tpc' = "train"
       ELSE /\ tpc' = "done"
            /\ UNCHANGED <<epoch, batch_idx>>
    /\ UNCHANGED <<launch, commands, argv, prog, args, unknown, handler, used,
                   steps, cursor, evals, log, nbVars, dfVars>>

\* train(): one batch of the loop over train_loader; the modulo by a zero
\* log interval raises after the optimizer step
IrisTrainBatch ==
    /\ prog = "iris" /\ tpc = "train"
    /\ steps' = steps + 1
    /\ IF args.log_interval.n = 0
       THEN /\ tpc' = "ZeroDivisionError"
            /\ UNCHANGED <<batch_idx, log>>
       ELSE /\ log' = IF IsLogBatch(batch_idx, args.log_interval.n)
                      THEN Emit(TrainMessage(epoch, batch_idx))
                      ELSE log
            /\ IF batch_idx + 1 < NumBatches(TrainRows(IrisRows), used.batch_size)
               THEN /\ batch_idx' = batch_idx + 1
                    /\ UNCHANGED tpc
               ELSE /\ tpc' = "test"
                    /\ UNCHANGED batch_idx
    /\ UNCHANGED <<launch, commands, argv, prog, args, unknown, handler, used,
                   epoch, cursor, evals, nbVars, dfVars>>

\* test(): the pass over test_loader and its one logging.info
IrisTest ==
    /\ prog = "iris" /\ tpc = "test"
    /\ evals' = evals + 1
    /\ log' = Emit(TestMessage(epoch))
    /\ tpc' = "loop"
    /\ UNCHANGED <<launch, commands, argv, prog, args, unknown, handler, used,
                   epoch, batch_idx, steps, cursor, nbVars, dfVars>>

\* ------------------------------------------------------------------------
\* tfjobtitan.py
\* ------------------------------------------------------------------------
\* parsed_args, _ = parser.parse_known_args()
TfParse ==
    /\ prog = "tf" /\ tpc = "parse"
    /\ LET r == parse_known_args(TfParser, argv)
       IN  IF r.ok
           THEN /\ args' = r.ns
                /\ unknown' = r.extras
                /\ tpc' = "build"
           ELSE /\ tpc' = "usage_error"
                /\ UNCHANGED <<args, unknown>>
    /\ UNCHANGED <<launch, commands, argv, prog, handler, used, epoch,
                   batch_idx, steps, cursor, evals, log, nbVars, dfVars>>

\* main() up to the compiled model: strategy, logging.debug (which installs
\* the default handler), batched datasets, model(args); a batch size that is
\* not positive and an optimizer name Keras does not know are refused
TfBuild ==
    /\ prog = "tf" /\ tpc = "build"
    /\ handler' = DefaultStream
    /\ LET BATCH_SIZE_PER_REPLICA == args.batch_size.n
           BATCH_SIZE == BATCH_SIZE_PER_REPLICA * launch.world
       IN  IF BATCH_SIZE <= 0 \/ args.optimizer.s \notin KerasOptimizers
           THEN /\ tpc' = "ValueError"
                /\ UNCHANGED <<used, epoch, batch_idx, cursor>>
           ELSE /\ used' = [batch_size_per_replica |-> BATCH_SIZE_PER_REPLICA,
                            batch_size |-> BATCH_SIZE,
                            optimizer |-> args.optimizer,
                            learning_rate |-> args.learning_rate,
                            epochs |-> FitEpochs,
                            steps_per_epoch |-> StepsPerEpoch,
                            shuffle_buffer |-> ShuffleBuffer]
                /\ epoch' = 1
                /\ batch_idx' = 0
                /\ cursor' = 0
                /\ tpc' = "fit"
    /\ UNCHANGED <<launch, commands, argv, prog, args, unknown, steps, evals,
                   log, nbVars, dfVars>>

\* multi_worker_model.fit(): one training step.  The step takes the next
\* batch of the training dataset; a dataset that does not repeat runs out,
\* and fit() then stops early.
TfFitStep ==
    /\ prog = "tf" /\ tpc = "fit"
    /\ IF ~TrainRepeats /\ cursor >= TrainRows(TitanicRows)
       THEN /\ tpc' = "evaluate"
            /\ UNCHANGED <<epoch, batch_idx, steps, cursor>>
       ELSE /\ steps' = steps + 1
            /\ cursor' = IF TrainRepeats
                         THEN (cursor + used.batch_size) % TrainRows(TitanicRows)
                         ELSE cursor + used.batch_size
            /\ IF batch_idx + 1 < used.steps_per_epoch
               THEN /\ batch_idx' = batch_idx + 1
                    /\ UNCHANGED <<epoch, tpc>>
               ELSE IF epoch < used.epochs
                    THEN /\ epoch' = epoch + 1
                         /\ batch_idx' = 0
                         /\ UNCHANGED tpc
                    ELSE /\ tpc' = "evaluate"
                         /\ UNCHANGED <<epoch, batch_idx>>
    /\ UNCHANGED <<launch, commands, argv, prog, args, unknown, handler, used,
                   evals, log, nbVars, dfVars>>

\* multi_worker_model.evaluate(test_dataset_sharded, verbose=0, steps=10)
TfEvaluate ==
    /\ prog = "tf" /\ tpc = "evaluate"
    /\ evals' = evals + 1
    /\ tpc' = "log_loss"
    /\ UNCHANGED <<launch, commands, argv, prog, args, unknown, handler, used,
                   epoch, batch_idx, steps, cursor, log, nbVars, dfVars>>

\* logging.info("loss={:.4f}".format(eval_loss))
TfLogLoss ==
    /\ prog = "tf" /\ tpc = "log_loss"
    /\ log' = Emit(EvalMessage("loss"))
    /\ tpc' = "log_accuracy"
    /\ UNCHANGED <<launch, commands, argv, prog, args, unknown, handler, used,
                   epoch, batch_idx, steps, cursor, evals, nbVars, dfVars>>

\* logging.info("accuracy={:.4f}".format(eval_acc))
TfLogAccuracy ==
    /\ prog = "tf" /\ tpc = "log_accuracy"
    /\ log' = Emit(EvalMessage("accuracy"))
    /\ tpc' = "done"
    /\ UNCHANGED <<launch, commands, argv, prog, args, unknown, handler, used,
                   epoch, batch_idx, steps, cursor, evals, nbVars, dfVars>>

\* ------------------------------------------------------------------------
\* tfjobtitan.py: make_datasets_unbatched.  A frame is its set of columns
\* (their order plays no part in what follows).  A column has a name, a
\* dtype, for an object column the set of values it holds, and whether some
\* entry is missing.  The name is a tuple, so that the indicator column
\* pandas calls Sex_male is <<"Sex", "male">>.
\* ------------------------------------------------------------------------
Column(name, dtype, values, na) ==
    [name |-> <<name>>, dtype |-> dtype, values |-> values, na |-> na]
Number(name) == Column(name, "number", {}, FALSE)

\* the values the Sex and Embarked columns of a table may hold
Sexes == {"male", "female"}
Ports == {"C", "Q", "S", "X"}

\* pd.read_csv(".../titanic/datasets/train.csv"): the columns of the Titanic
\* training table; what Sex and Embarked hold is up to the file
read_csv(sex, sex_na, embarked, embarked_na) ==
    {Number("PassengerId"), Number("Survived"), Number("Pclass"),
     Column("Name", "object", {"Braund, Mr. Owen Harris"}, FALSE),
     Column("Sex", "object", sex, sex_na),
     Column("Age", "number", {}, TRUE),
     Number("SibSp"), Number("Parch"),
     Column("Ticket", "object", {"A/5 21171"}, FALSE),
     Number("Fare"),
     Column("Cabin", "object", {"C85"}, TRUE),
     Column("Embarked", "object", embarked, embarked_na)}

Tables ==
    {read_csv(sex, sex_na, embarked, embarked_na) :
        sex \in SUBSET Sexes \ {{}}, sex_na \in BOOLEAN,
        embarked \in SUBSET Ports \ {{}}, embarked_na \in BOOLEAN}

ColumnOf(frame, name) == CHOOSE c \in frame : c.name = <<name>>

\* data[name] = ...: the column is replaced, or added
assign(frame, col) == {c \in frame : c.name # col.name} \cup {col}

\* data.drop([...], axis=1)
drop(frame, names) == {c \in frame : \A n \in names : c.name # <<n>>}

\* data[name] = data[name].fillna(value)
fillna(frame, name, value) ==
    LET c == ColumnOf(frame, name)
    IN  assign(frame,
               [c EXCEPT !.values = IF c.na /\ c.dtype = "object"
                                    THEN c.values \cup {value} ELSE c.values,
                         !.na = FALSE])

\* variant: pd.get_dummies(data, drop_first=True)
get_dummies_dropFirst(frame) ==
    {c \in frame : c.dtype # "object"}
    \cup UNION {{[name |-> c.name \o <<v>>, dtype |-> "number", values |-> {},
                  na |-> FALSE] : v \in c.values \ {CHOOSE w \in c.values : TRUE}} :
                    c \in {d \in frame : d.dtype = "object"}}
\* pd.get_dummies(data): every object column gives way to one indicator
\* column per value it holds (a missing entry is not a value)
get_dummies(frame) ==
    {c \in frame : c.dtype # "object"}
    \cup UNION {{[name |-> c.name \o <<v>>, dtype |-> "number", values |-> {},
                  na |-> FALSE] : v \in c.values} :
                    c \in {d \in frame : d.dtype = "object"}}

\* Dense(units=20, activation='relu', input_dim=13)
input_dim == 13

\* the lines from read_csv to the filled Embarked column
Preprocess ==
    /\ prog = "tf" /\ tpc = "read_csv"
    /\ LET relatives == assign(csv, Number("relatives"))
           not_alone == assign(relatives, Number("not_alone"))
           dropped == drop(not_alone, {"PassengerId", "Name", "Ticket"})
           cabin == fillna(dropped, "Cabin", "U0")
           deck == assign(cabin, Number("Deck"))
           no_cabin == drop(deck, {"Cabin"})
           age == fillna(no_cabin, "Age", "mean")
       IN  data' = fillna(age, "Embarked", "S")
    /\ tpc' = "encode"
    /\ UNCHANGED <<launch, commands, argv, prog, args, unknown, handler, used,
                   epoch, batch_idx, steps, cursor, evals, log, csv, nbVars>>

\* data = pd.get_dummies(data)
Encode ==
    /\ prog = "tf" /\ tpc = "encode"
    /\ data' = get_dummies(data)
    /\ tpc' = "split"
    /\ UNCHANGED <<launch, commands, argv, prog, args, unknown, handler, used,
                   epoch, batch_idx, steps, cursor, evals, log, csv, nbVars>>

\* X = data.drop("Survived", axis=1): the feature rows of both datasets
SplitFeatures ==
    /\ prog = "tf" /\ tpc = "split"
    /\ data' = drop(data, {"Survived"})
    /\ tpc' = "features"
    /\ UNCHANGED <<launch, commands, argv, prog, args, unknown, handler, used,
                   epoch, batch_idx, steps, cursor, evals, log, csv, nbVars>>

\* the first batch reaches the model: Keras refuses rows whose width is not
\* the input layer's
FeedModel ==
    /\ prog = "tf" /\ tpc = "features"
    /\ tpc' = IF Cardinality(data) = input_dim THEN "fed" ELSE "ValueError"
    /\ UNCHANGED <<launch, commands, argv, prog, args, unknown, handler, used,
                   epoch, batch_idx, steps, cursor, evals, log, dfVars, nbVars>>

\* ------------------------------------------------------------------------
\* Specifications
\* ------------------------------------------------------------------------
\* no trainer is part of a notebook's kubectl cells
TrainerIdle ==
    /\ launch = [by |-> "none", id |-> "", replica |-> "", world |-> 1,
                 assignment |-> <<>>]
    /\ commands = <<>>
    /\ argv = <<>>
    /\ prog = "none"
    /\ tpc = "idle"
    /\ args = <<>>
    /\ unknown = <<>>
    /\ handler = "none"
    /\ used = <<>>
    /\ epoch = 0
    /\ batch_idx = 0
    /\ steps = 0
    /\ cursor = 0
    /\ evals = 0
    /\ log = <<>>

\* no notebook is part of a trainer process
NotebookIdle ==
    /\ nb = "none"
    /\ cell = 0
    /\ halted = FALSE
    /\ kubectl_output = Undefined
    /\ EXPERIMENT = Undefined
    /\ cluster = {}
    /\ kubectl_result = "none"
    /\ addressed = <<>>

\* no table has been read
FrameIdle ==
    /\ csv = {}
    /\ data = {}

\* a fresh kernel about to run the notebook's first kubectl cell; the
\* cluster may already hold the resource
InitNotebook ==
    /\ nb \in Notebooks
    /\ cell = 1
    /\ halted = FALSE
    /\ kubectl_output = Undefined
    /\ EXPERIMENT = Undefined
    /\ cluster \in {{}, {ManifestName(nb)}}
    /\ kubectl_result = "none"
    /\ addressed = <<>>
    /\ TrainerIdle
    /\ FrameIdle

NextNotebook ==
    \/ RunApply
    \/ RunCreate
    \/ RunAssign
    \/ RunDescribe
    \/ RunGet
    \/ RunLogs
    \/ RunDeleteFile
    \/ RunDeleteVar

SpecNotebook == InitNotebook /\ [][NextNotebook]_vars

\* the notebook's kernel over several runs and cells run by hand
NextKernel ==
    \/ NextNotebook
    \/ RunAgain
    \/ DescribeByHand
    \/ DeleteByHand

SpecKernel == InitNotebook /\ [][NextKernel]_vars

\* get_resource on any captured text: the kernel is at the assignment cell
\* and the capture variable holds some text
Alphabet == {"created", "configured", "Warning:", "tfjob.kubeflow.org/titan", SP, NL}
Texts == UNION {[1..n -> Alphabet] : n \in 0..MaxLen}

InitGetResource ==
    /\ nb = "titan"
    /\ cell = AssignIndex(nb)
    /\ halted = FALSE
    /\ kubectl_output \in {Defined(t) : t \in Texts}
    /\ EXPERIMENT = Undefined
    /\ cluster = {}
    /\ kubectl_result = "none"
    /\ addressed = <<>>
    /\ TrainerIdle
    /\ FrameIdle

SpecGetResource == InitGetResource /\ [][RunAssign]_vars

\* one trainer start, from a manifest, a %run cell or a command line
InitTrainer ==
    /\ launch \in {[by |-> l.by, id |-> l.id, replica |-> "", world |-> 1,
                    assignment |-> <<>>] : l \in Launchers}
    /\ commands = <<>>
    /\ argv = <<>>
    /\ prog = "none"
    /\ tpc = "submit"
    /\ args = <<>>
    /\ unknown = <<>>
    /\ handler = "none"
    /\ used = <<>>
    /\ epoch = 0
    /\ batch_idx = 0
    /\ steps = 0
    /\ cursor = 0
    /\ evals = 0
    /\ log = <<>>
    /\ NotebookIdle
    /\ FrameIdle

NextTrainer ==
    \/ RenderTrial
    \/ CreateJob
    \/ RunCell
    \/ CommandLine
    \/ Exec
    \/ IrisParse
    \/ IrisSetup
    \/ IrisEpoch
    \/ IrisTrainBatch
    \/ IrisTest
    \/ TfParse
    \/ TfBuild
    \/ TfFitStep
    \/ TfEvaluate
    \/ TfLogLoss
    \/ TfLogAccuracy

SpecTrainer == InitTrainer /\ [][NextTrainer]_vars

\* a started process keeps running until it exits
FairTrainer == SpecTrainer /\ WF_vars(NextTrainer)

\* make_datasets_unbatched on any table with the Titanic columns
InitDatasets ==
    /\ launch = [by |-> "run", id |-> "tfjobtitan.py", replica |-> "local",
                 world |-> 1, assignment |-> <<>>]
    /\ commands = <<>>
    /\ argv = <<>>
    /\ prog = "tf"
    /\ tpc = "read_csv"
    /\ args = <<>>
    /\ unknown = <<>>
    /\ handler = "none"
    /\ used = <<>>
    /\ epoch = 0
    /\ batch_idx = 0
    /\ steps = 0
    /\ cursor = 0
    /\ evals = 0
    /\ log = <<>>
    /\ csv \in Tables
    /\ data = {}
    /\ NotebookIdle

NextDatasets ==
    \/ Preprocess
    \/ Encode
    \/ SplitFeatures
    \/ FeedModel

SpecDatasets == InitDatasets /\ [][NextDatasets]_vars

\* ------------------------------------------------------------------------
\* Positions
\* ------------------------------------------------------------------------
\* the assignment cell has run: it returned, or it raised and ended the run
AssignRan == halted \/ cell > AssignIndex(nb)

IrisInLoop == prog = "iris" /\ tpc \in {"loop", "train", "test", "done"}
TfBuilt ==
    prog = "tf" /\ tpc \in {"fit", "evaluate", "log_loss", "log_accuracy", "done"}
Stopped == tpc \in {"done", "usage_error", "ValueError", "ZeroDivisionError"}

Messages(src) == SelectSeq(log, LAMBDA r : r.msg.src = src)
HasKey(msg, key) == \E k \in DOMAIN msg.keys : msg.keys[k] = key

\* ------------------------------------------------------------------------
\* C1
\* ------------------------------------------------------------------------
\* some non-empty text without a line break, then whitespace, then "created"
LooksCreated(out) ==
    \E i \in 1..Len(out) : \E j \in (i + 2)..Len(out) :
        /\ \A p \in 1..i : out[p] # NL
        /\ \A p \in (i + 1)..(j - 1) : out[p] \in {SP, TAB, NL}
        /\ out[j] \in {"created", "created."}

\* C1: get_resource raises exactly when the captured stdout does not hold the
\* "<name> created" pattern (empty stdout included), and otherwise returns a
\* non-empty string, which the cell assigns.
C1_RaisesIffNoCreatedPattern ==
    AssignRan =>
        /\ halted <=> ~LooksCreated(kubectl_output.value)
        /\ ~halted => EXPERIMENT.defined /\ Len(EXPERIMENT.value) >= 1

C1_Witness ==
    /\ halted
    /\ kubectl_output.value = <<>>

\* ------------------------------------------------------------------------
\* C2
\* ------------------------------------------------------------------------
\* C2: after an apply / create that created the resource, whatever else the
\* captured output holds, get_resource returns the created resource's name
\* and the describe cell addresses that resource.
C2_ReturnsCreatedResource ==
    (kubectl_result = "created" /\ AssignRan) =>
        /\ ~halted
        /\ EXPERIMENT = Defined(<<ResourceRef(nb)>>)
        /\ addressed \in {<<>>, <<ResourceRef(nb)>>}

\* ------------------------------------------------------------------------
\* C3
\* ------------------------------------------------------------------------
\* C3: every metric line a trainer emits (iris.py without --log-path, and
\* tfjobtitan.py) is written to standard output.
C3_MetricLinesOnStdout ==
    \A i \in DOMAIN log :
        (prog = "tf" \/ args.log_path = S("")) => log[i].stream = "stdout"

\* ------------------------------------------------------------------------
\* C4
\* ------------------------------------------------------------------------
\* C4: a trial of an Experiment whose trainer is in the repository, once its
\* trainer has finished, has emitted a key=value line (the format the StdOut
\* collector parses) whose key is the experiment's objectiveMetricName.
C4_ObjectiveMetricIsEmitted ==
    (launch.by = "experiment" /\ prog \in {"iris", "tf"} /\ tpc = "done") =>
        /\ ManifestOf(launch.id).collector = "StdOut"
        /\ \E i \in DOMAIN log :
            /\ log[i].msg.format = "key=value"
            /\ HasKey(log[i].msg, ManifestOf(launch.id).objectiveMetricName)

C4_Witness ==
    /\ launch.by = "experiment"
    /\ launch.id = "pytorchjob-ex2"
    /\ prog = "iris"
    /\ tpc = "done"
    /\ Len(Messages("train")) = 10

\* ------------------------------------------------------------------------
\* C5
\* ------------------------------------------------------------------------
\* C5: in every Experiment manifest each placeholder names a trialParameters
\* entry and each entry references a declared parameter; and in every trial
\* created from it, no replica's command keeps a placeholder and every
\* replica's command carries the value assigned to every search parameter.
C5_TrialTemplateIsClosed ==
    /\ \A m \in Experiments :
        /\ \A r \in DOMAIN m.command : \A i \in DOMAIN m.command[r].cmd :
            m.command[r].cmd[i].val.lex = "ph" =>
                \E tp \in m.trialParameters : tp.name = m.command[r].cmd[i].val.s
        /\ \A tp \in m.trialParameters :
            \E q \in m.parameters : q.name = tp.reference
    /\ (launch.by = "experiment" /\ tpc # "submit") =>
        \A r \in DOMAIN commands :
            /\ \A i \in DOMAIN commands[r].cmd : commands[r].cmd[i].val.lex # "ph"
            /\ \A q \in ManifestOf(launch.id).parameters :
                \E i \in DOMAIN commands[r].cmd :
                    commands[r].cmd[i].val = launch.assignment[q.name]

C5_Witness ==
    /\ launch.by = "experiment"
    /\ launch.id = "churn-experiment"
    /\ tpc = "created"
    /\ commands["Worker"].cmd[1].val = I(100)

\* ------------------------------------------------------------------------
\* C6
\* ------------------------------------------------------------------------
ParserOf(p) == IF p = "iris" THEN IrisParser ELSE TfParser

\* C6: when a manifest starts a trainer of the repository, every flag of the
\* command is declared by the trainer's parser with a type that accepts the
\* value, the trainer gets past its argument parsing and its setup, the
\* namespace holds the passed values, and the run uses them (iris.py: lr,
\* momentum, number of epochs; tfjobtitan.py: batch size, learning rate,
\* optimizer).
C6_ManifestFlagsAreDeclared ==
    (launch.by \in {"experiment", "tfjob"} /\ prog \in {"iris", "tf"}) =>
        /\ tpc \notin {"usage_error", "ValueError", "ZeroDivisionError"}
        /\ \A i \in DOMAIN argv :
            \E o \in ParserOf(prog) :
                /\ o.flag = argv[i].flag
                /\ Convert(o.type, argv[i].val).ok
                /\ tpc # "parse" =>
                    args[o.dest] = Convert(o.type, LastValue(argv, o.flag)).v
        /\ IrisInLoop =>
            /\ used.lr = LastValue(argv, "--lr")
            /\ used.momentum = LastValue(argv, "--momentum")
            /\ tpc = "done" => epoch = LastValue(argv, "--epochs").n
        /\ TfBuilt =>
            /\ used.batch_size_per_replica = LastValue(argv, "--batch_size").n
            /\ used.learning_rate = LastValue(argv, "--learning_rate")
            /\ used.optimizer = LastValue(argv, "--optimizer")

C6_Witness ==
    /\ launch.by = "experiment"
    /\ prog = "iris"
    /\ tpc = "done"
    /\ epoch = 10
    /\ used.lr = F(50)

\* ------------------------------------------------------------------------
\* C7
\* ------------------------------------------------------------------------
\* C7: tfjobtitan.py accepts each of --batch-size, --buffer-size, --epochs,
\* --steps, --learning-rate and --optimizer, and the value given changes the
\* setting of the run it names.
C7_TfTrainerAcceptsDocumentedArguments ==
    TfBuilt =>
        /\ \A i \in DOMAIN unknown :
            unknown[i].flag \notin {"--batch-size", "--buffer-size", "--epochs",
                                    "--steps", "--learning-rate", "--optimizer"}
        /\ HasFlag(argv, "--batch-size") =>
            used.batch_size_per_replica = LastValue(argv, "--batch-size").n
        /\ HasFlag(argv, "--buffer-size") =>
            used.shuffle_buffer = LastValue(argv, "--buffer-size").n
        /\ HasFlag(argv, "--epochs") =>
            used.epochs = LastValue(argv, "--epochs").n
        /\ HasFlag(argv, "--steps") =>
            used.steps_per_epoch = LastValue(argv, "--steps").n
        /\ HasFlag(argv, "--learning-rate") =>
            used.learning_rate = LastValue(argv, "--learning-rate")
        /\ HasFlag(argv, "--optimizer") =>
            used.optimizer = LastValue(argv, "--optimizer")

\* ------------------------------------------------------------------------
\* C8
\* ------------------------------------------------------------------------
\* C8: for every flag whose help text states a default, a run without the
\* flag uses the stated value; so iris.py runs 10 epochs when --epochs is
\* omitted and tfjobtitan.py uses 128 when --batch_size is omitted.
C8_OmittedFlagUsesHelpDefault ==
    /\ IrisInLoop =>
        /\ \A o \in IrisParser :
            (o.dest \in DOMAIN IrisHelpDefaults /\ ~HasFlag(argv, o.flag)) =>
                args[o.dest] = IrisHelpDefaults[o.dest]
        /\ (tpc = "done" /\ ~HasFlag(argv, "--epochs")) => epoch = 10
    /\ TfBuilt =>
        /\ \A o \in TfParser :
            (o.dest \in DOMAIN TfHelpDefaults /\ ~HasFlag(argv, o.flag)) =>
                args[o.dest] = TfHelpDefaults[o.dest]
        /\ ~HasFlag(argv, "--batch_size") => used.batch_size_per_replica = 128

\* ------------------------------------------------------------------------
\* C9
\* ------------------------------------------------------------------------
\* C9 as stated: an iris.py process whose arguments parsed and whose batch
\* sizes are positive stops only after it has run exactly N epochs, N being
\* the value of --epochs.
C9_StopsAfterEpochN ==
    (prog = "iris" /\ Stopped /\ tpc # "usage_error" /\ args.batch_size.n > 0) =>
        /\ tpc = "done"
        /\ epoch = args.epochs.n
        /\ evals = args.epochs.n

\* len(train_loader) of the run
IrisBatches == NumBatches(TrainRows(IrisRows), used.batch_size)

C9_EpochOrder ==
    (prog = "iris" /\ tpc \notin {"parse", "usage_error", "setup"}
        /\ args.batch_size.n > 0 /\ args.log_interval.n # 0) =>
        /\ tpc \in {"loop", "train", "test", "done"}
        /\ epoch \in 0..args.epochs.n
        /\ tpc = "loop" => evals = epoch /\ steps = epoch * IrisBatches
        /\ tpc = "train" =>
            /\ epoch >= 1 /\ evals = epoch - 1
            /\ steps = (epoch - 1) * IrisBatches + batch_idx
        /\ tpc = "test" =>
            /\ epoch >= 1 /\ evals = epoch - 1
            /\ steps = epoch * IrisBatches
        /\ tpc = "done" =>
            /\ epoch = args.epochs.n /\ evals = epoch
            /\ steps = epoch * IrisBatches
        /\ Len(Messages("test")) = evals
        /\ \A k \in 1..evals :
            /\ Messages("test")[k].msg.epoch = k
            /\ Messages("test")[k].msg.keys = <<"accuracy", "loss">>
        /\ \A i \in DOMAIN log : \A j \in DOMAIN log :
            i < j =>
                /\ log[i].msg.epoch <= log[j].msg.epoch
                /\ log[i].msg.src = "test" => log[i].msg.epoch < log[j].msg.epoch

\* C9 (amended): iris.py, once its arguments have parsed with positive batch
\* sizes and a non-zero --log-interval, runs for --epochs N >= 0 exactly the
\* epochs 1..N; in each epoch all training batches precede the test pass,
\* each test pass emits exactly one line with accuracy and loss, no line of
\* epoch k+1 precedes the metric line of epoch k, and the process ends after
\* epoch N.
C9_RunsEpochsInOrderAndEnds ==
    /\ []C9_EpochOrder
    /\ (prog = "iris" /\ tpc = "loop" /\ epoch = 0 /\ args.log_interval.n # 0)
            ~> (tpc = "done")

C9_Witness ==
    /\ prog = "iris"
    /\ tpc = "done"
    /\ args.epochs.n = 2
    /\ args.log_interval.n = 1
    /\ evals = 2
    /\ Len(log) > 2

\* ------------------------------------------------------------------------
\* C10
\* ------------------------------------------------------------------------
\* C10 as stated: whatever its command line, a tfjobtitan.py process stops
\* only after 12 x 5 training steps, one evaluation and its two metric lines.
C10_AlwaysTrainsTwelveByFive ==
    (prog = "tf" /\ Stopped) =>
        /\ tpc = "done"
        /\ steps = 60
        /\ evals = 1

C10_FitThenEvaluateThenLog ==
    TfBuilt =>
        /\ used.epochs = 12 /\ used.steps_per_epoch = 5
        /\ tpc = "fit" =>
            /\ epoch \in 1..12 /\ batch_idx \in 0..4
            /\ steps = (epoch - 1) * 5 + batch_idx
            /\ evals = 0 /\ log = <<>>
        /\ tpc = "evaluate" => steps = 60 /\ evals = 0 /\ log = <<>>
        /\ tpc = "log_loss" => steps = 60 /\ evals = 1 /\ log = <<>>
        /\ tpc = "log_accuracy" =>
            /\ steps = 60 /\ evals = 1
            /\ Len(log) = 1 /\ log[1].msg.keys = <<"loss">>
        /\ tpc = "done" =>
            /\ steps = 60 /\ evals = 1
            /\ Len(log) = 2
            /\ log[1].msg.keys = <<"loss">> /\ log[2].msg.keys = <<"accuracy">>
            /\ \A i \in DOMAIN log : log[i].msg.format = "key=value"

\* C10 (amended): tfjobtitan.py, once its arguments have parsed and its
\* model is compiled, trains exactly 12 epochs of 5 steps whatever the
\* arguments were, leaves fit() although the training dataset repeats, then
\* evaluates once, and only then emits exactly one loss= line followed by
\* exactly one accuracy= line.
C10_TrainsTwelveByFiveOnceBuilt ==
    /\ []C10_FitThenEvaluateThenLog
    /\ (prog = "tf" /\ tpc = "fit") ~> (tpc = "done")

C10_Witness ==
    /\ prog = "tf"
    /\ tpc = "done"
    /\ HasFlag(argv, "--epochs")
    /\ HasFlag(argv, "--batch_size")
    /\ steps = 60

\* ------------------------------------------------------------------------
\* C11
\* ------------------------------------------------------------------------
\* C11: in a notebook run whose apply / create found no resource and created
\* it, the resource exists at every cell up to the delete cell and does not
\* exist after it; and only the apply / create and delete cells ever change
\* which resources exist (describe, get, logs and the assignment do not).
C11_ExistsFromSubmitToDelete ==
    /\ [](kubectl_result = "created" =>
            /\ cell <= DeleteIndex(nb) => ManifestName(nb) \in cluster
            /\ cell > DeleteIndex(nb) => ManifestName(nb) \notin cluster)
    /\ [][cluster' # cluster =>
            CellOp \in {"apply", "create", "delete_file", "delete_var"}]_vars

C11_Witness ==
    /\ kubectl_result = "created"
    /\ nb = "titan"
    /\ cell > DeleteIndex(nb)
    /\ ManifestName(nb) \notin cluster

\* ------------------------------------------------------------------------
\* C12
\* ------------------------------------------------------------------------
\* C12: the assignment cell's one call of get_resource either returns (the
\* variable is assigned, the run goes on) or raises (the run ends); it
\* leaves the captured output, the result of the kubectl command and the
\* cluster as they were; and nothing runs after a raise.
C12_OneCallNoRetry ==
    [][/\ ~halted
       /\ CellOp = "assign" =>
            /\ kubectl_output' = kubectl_output
            /\ kubectl_result' = kubectl_result
            /\ cluster' = cluster
            /\ \/ halted' /\ EXPERIMENT' = EXPERIMENT /\ cell' = cell
               \/ /\ ~halted' /\ cell' = cell + 1
                  /\ EXPERIMENT'.defined
                  /\ EXPERIMENT' = Defined(get_resource(kubectl_output.value).value)]_vars

C12_Witness ==
    /\ halted
    /\ kubectl_result = "configured"
    /\ ~EXPERIMENT.defined
    /\ ManifestName(nb) \in cluster

\* ------------------------------------------------------------------------
\* C15
\* ------------------------------------------------------------------------
\* C15: in a top-to-bottom run every executed describe / delete cell that
\* uses the variable comes after the assignment cell has returned, the
\* assignment cell comes after the apply / create cell whose output it
\* parses, and after a raise the variable is unassigned and no cell has used
\* or will use it.
C15_UseAfterAssignAfterSubmit ==
    /\ kubectl_output.defined => cell > SubmitIndex(nb)
    /\ EXPERIMENT.defined => kubectl_output.defined /\ cell > AssignIndex(nb)
    /\ addressed # <<>> => EXPERIMENT.defined /\ addressed = EXPERIMENT.value
    /\ halted => ~EXPERIMENT.defined /\ addressed = <<>> /\ cell = AssignIndex(nb)
    /\ \A i \in 1..(cell - 1) :
        Cells(nb)[i] \in {"describe", "delete_var"} =>
            /\ EXPERIMENT.defined
            /\ AssignIndex(nb) < i
            /\ SubmitIndex(nb) < AssignIndex(nb)

C15_Witness ==
    /\ nb = "churn_katib"
    /\ addressed = <<ResourceRef(nb)>>
    /\ cell > AssignIndex(nb) + 1

\* ------------------------------------------------------------------------
\* C13
\* ------------------------------------------------------------------------
WellFormedParameter(q) ==
    /\ q.parameterType \in {"double", "int", "categorical"}
    /\ q.parameterType \in {"double", "int"} =>
        /\ q.min.lex \in {"int", "float"} /\ q.max.lex \in {"int", "float"}
        /\ Milli(q.min) < Milli(q.max)
    /\ q.parameterType = "int" => q.min.lex = "int" /\ q.max.lex = "int"
    /\ q.parameterType = "categorical" =>
        /\ Len(q.list) >= 1
        /\ \A i \in DOMAIN q.list : \A j \in DOMAIN q.list :
            i # j => q.list[i] # q.list[j]

InFeasibleSpace(q, v) ==
    CASE q.parameterType = "double" ->
            v.lex = "float" /\ Milli(q.min) <= v.n /\ v.n <= Milli(q.max)
      [] q.parameterType = "int" ->
            v.lex = "int" /\ q.min.n <= v.n /\ v.n <= q.max.n
      [] q.parameterType = "categorical" ->
            v.lex = "str" /\ \E i \in DOMAIN q.list : q.list[i] = v.s
      [] OTHER -> FALSE

\* C13: every search parameter of the Experiment a trial comes from has a
\* parameterType in {double, int, categorical}; a double or int parameter
\* has min < max (integer literals for int), a categorical one a non-empty
\* list of distinct choices; and the value a trial is given lies in that
\* space.
C13_SearchSpaceWellFormed ==
    launch.by = "experiment" =>
        \A q \in ManifestOf(launch.id).parameters :
            /\ WellFormedParameter(q)
            /\ tpc # "submit" => InFeasibleSpace(q, launch.assignment[q.name])

C13_Witness ==
    /\ launch.by = "experiment"
    /\ launch.id = "churn-experiment"
    /\ tpc = "created"
    /\ launch.assignment["batch_size"] = I(100)
    /\ launch.assignment["optimizer"] = S("adam")

\* ------------------------------------------------------------------------
\* C14
\* ------------------------------------------------------------------------
\* C14: an Experiment manifest that uses the trialTemplate fields
\* primaryContainerName, trialParameters or trialSpec declares apiVersion
\* kubeflow.org/v1beta1, the version whose schema has those fields.
C14_TemplateFieldsMatchApiVersion ==
    launch.by = "experiment" =>
        (ManifestOf(launch.id).trialTemplate
            \cap {"primaryContainerName", "trialParameters", "trialSpec"} # {}
         => ManifestOf(launch.id).apiVersion = "kubeflow.org/v1beta1")

\* ------------------------------------------------------------------------
\* C16
\* ------------------------------------------------------------------------
\* C16: when the apply / create cell found the resource already there (its
\* output reports configured or unchanged, or an already-exists error), the
\* get_resource call that follows raises.
C16_ExistingResourceRaises ==
    (kubectl_result \in {"configured", "exists"} /\ AssignRan) => halted

\* ------------------------------------------------------------------------
\* C17
\* ------------------------------------------------------------------------
\* C17: every resource name an executed monitoring cell spells out (trial
\* label selector, pod selector, worker pod, logs -f) is the metadata.name
\* of the manifest the notebook submits.
C17_MonitoringNamesTheManifest ==
    \A i \in 1..(cell - 1) :
        (i <= Len(CellNames(nb)) /\ CellNames(nb)[i] # "") =>
            CellNames(nb)[i] = ManifestName(nb)

\* ------------------------------------------------------------------------
\* C19
\* ------------------------------------------------------------------------
\* C19: every record iris.py logs goes to the file when --log-path is a
\* non-empty string and to standard output when it is empty or omitted, the
\* same destination for every train and test line of the run.
C19_FileOrStandardOutput ==
    prog = "iris" =>
        \A i \in DOMAIN log :
            log[i].stream = IF args.log_path = S("") THEN "stdout" ELSE "file"

\* ------------------------------------------------------------------------
\* C20
\* ------------------------------------------------------------------------
\* the text before the first line break
FirstLine(out) ==
    IF \E i \in DOMAIN out : out[i] = NL
    THEN SubSeq(out, 1, (CHOOSE i \in DOMAIN out :
                            out[i] = NL /\ \A j \in 1..(i - 1) : out[j] # NL) - 1)
    ELSE out

\* C20 as stated: only the first line counts.  get_resource returns the
\* prefix of the first line before the last whitespace character of that
\* line that "created" follows, and raises exactly when the first line has
\* no such place.
C20_FirstLineOnly ==
    AssignRan =>
        LET line == FirstLine(kubectl_output.value)
            places == {w \in 2..(Len(line) - 1) :
                        IsSpace(line[w]) /\ line[w + 1] \in {"created", "created."}}
        IN  /\ halted <=> places = {}
            /\ ~halted => EXPERIMENT.value = SubSeq(line, 1, Max(places) - 1)

\* C20 (amended): get_resource matches greedily from the start of the text.
\* It returns the longest non-empty prefix of the first line that is
\* followed by one or more whitespace characters, line breaks included, and
\* then "created"; it raises exactly when there is no such prefix, so a
\* later "<name> created" is not found unless only whitespace separates it
\* from the first line's prefix.
C20_GreedyFirstLinePrefix ==
    AssignRan =>
        LET out == kubectl_output.value
            ends == {e \in 1..Len(FirstLine(out)) :
                        \E j \in (e + 2)..Len(out) :
                            /\ \A q \in (e + 1)..(j - 1) : out[q] \in {SP, TAB, NL}
                            /\ out[j] \in {"created", "created."}}
        IN  /\ halted <=> ends = {}
            /\ ~halted => EXPERIMENT.value = SubSeq(out, 1, Max(ends))

C20_Witness ==
    /\ AssignRan
    /\ ~halted
    /\ \E i \in DOMAIN EXPERIMENT.value : EXPERIMENT.value[i] = "created"
    /\ \E i \in DOMAIN kubectl_output.value : kubectl_output.value[i] = NL

\* ------------------------------------------------------------------------
\* C21
\* ------------------------------------------------------------------------
\* C21: the step at which get_resource raises leaves EXPERIMENT (TF_JOB) as
\* it was, so the variable only ever changes by a call that returned; while
\* the run is stopped, a describe / delete cell run by hand receives the
\* variable's value from before the failed call (nothing on a kernel that
\* never had a successful call).
C21_RaiseLeavesVariable ==
    [][/\ (~halted /\ halted') => EXPERIMENT' = EXPERIMENT
       /\ EXPERIMENT' # EXPERIMENT =>
            /\ CellOp = "assign"
            /\ ~halted'
            /\ EXPERIMENT' = Defined(get_resource(kubectl_output.value).value)
       /\ (halted /\ halted' /\ addressed' # addressed) =>
            addressed' = EXPERIMENT.value /\ EXPERIMENT' = EXPERIMENT]_vars

C21_Witness ==
    /\ nb = "titan"
    /\ halted
    /\ EXPERIMENT = Defined(<<ResourceRef(nb)>>)
    /\ kubectl_output.value # <<ResourceRef(nb), SP, "created", NL>>
    /\ addressed = <<ResourceRef(nb)>>
    /\ ManifestName(nb) \notin cluster

\* ------------------------------------------------------------------------
\* C22
\* ------------------------------------------------------------------------
\* iris.py is past the distributed set-up of main()
IrisPastSetup ==
    prog = "iris" /\ tpc \in {"loop", "train", "test", "done", "ValueError",
                              "ZeroDivisionError"}

Called(name) == \E i \in DOMAIN used.calls : used.calls[i] = name
CalledBefore(a, b) ==
    \A i, j \in DOMAIN used.calls :
        (used.calls[i] = a /\ used.calls[j] = b) => i < j

\* C22: iris.py initialises the process group exactly when the build has
\* torch.distributed and WORLD_SIZE > 1 (so never with WORLD_SIZE unset or
\* 1); once main() reaches the epoch loop the model is wrapped exactly when
\* the process group was initialised, no wrapper is made without it, and the
\* optimizer was built last, from the model as it is after that decision.
C22_DistributedSetup ==
    IrisPastSetup =>
        /\ used.process_group <=> (used.dist_available /\ WORLD_SIZE > 1)
        /\ Called("init_process_group") <=> used.process_group
        /\ WORLD_SIZE <= 1 =>
             ~Called("init_process_group") /\ ~Called("Distributor")
        /\ Called("Distributor") => used.process_group
        /\ IrisInLoop =>
             /\ Called("Distributor") <=> used.process_group
             /\ used.model = IF used.process_group
                             THEN "Distributor(Net)" ELSE "Net"
             /\ used.optimizer_params = used.model
             /\ used.calls[Len(used.calls)] = "SGD"
             /\ CalledBefore("init_process_group", "Distributor")
             /\ CalledBefore("Distributor", "SGD")

C22_Witness ==
    /\ IrisInLoop
    /\ tpc = "done"
    /\ WORLD_SIZE = 2
    /\ used.process_group
    /\ used.optimizer_params = "Distributor(Net)"

\* ------------------------------------------------------------------------
\* C23
\* ------------------------------------------------------------------------
\* the (epoch, batch index) pairs whose training step is complete
IrisProcessed ==
    {p \in (1..epoch) \X (0..(IrisBatches - 1)) :
        p[1] < epoch \/ tpc # "train" \/ p[2] < batch_idx}

IsMultiple(b, interval) == \E k \in 0..b : b = k * interval

\* C23: with a log interval >= 1 the train pass has emitted one loss= line
\* for exactly the processed batches whose index is a multiple of the
\* interval, so every epoch whose first batch is done has its batch-0 line;
\* with --log-interval 0 the first batch stops the process with a
\* ZeroDivisionError, which nothing else causes, and no line is ever emitted.
C23_LossLineOnMultiplesOfInterval ==
    (prog = "iris" /\ tpc \in {"loop", "train", "test", "done", "ZeroDivisionError"}) =>
        LET interval == args.log_interval.n
            lines == Messages("train")
        IN  /\ tpc = "ZeroDivisionError" <=> (interval = 0 /\ steps >= 1)
            /\ interval >= 1 =>
                /\ {<<lines[i].msg.epoch, lines[i].msg.batch>> : i \in DOMAIN lines}
                     = {p \in IrisProcessed : IsMultiple(p[2], interval)}
                /\ \A i, j \in DOMAIN lines :
                     lines[i].msg = lines[j].msg => i = j
                /\ \A i \in DOMAIN lines : HasKey(lines[i].msg, "loss")
                /\ \A e \in 1..epoch :
                     <<e, 0>> \in IrisProcessed =>
                        \E i \in DOMAIN lines :
                            lines[i].msg.epoch = e /\ lines[i].msg.batch = 0
            /\ interval = 0 =>
                /\ log = <<>>
                /\ evals = 0
                /\ epoch <= 1 /\ batch_idx = 0 /\ steps <= 1

C23_Witness ==
    /\ prog = "iris"
    /\ tpc = "done"
    /\ args.log_interval = I(10)
    /\ epoch = 2
    /\ IrisBatches = 3
    /\ Len(Messages("train")) = 2

\* the --log-interval 0 case of C23
C23_Witness_ZeroInterval ==
    /\ prog = "iris"
    /\ tpc = "ZeroDivisionError"
    /\ args.epochs = I(2)
    /\ log = <<>>

\* ------------------------------------------------------------------------
\* C24
\* ------------------------------------------------------------------------
Declares(parser, flag) == \E o \in parser : o.flag = flag

\* every argument the parser applies has a value its option's type accepts
AppliedArgumentsConvert(parser) ==
    \A i \in DOMAIN argv :
        \A o \in Resolve(parser, argv[i].flag) : Convert(o.type, argv[i].val).ok

\* the destinations some argument of the command line is applied to
Given(parser) ==
    {o.dest : o \in UNION {Resolve(parser, argv[i].flag) : i \in DOMAIN argv}}

\* C24 as stated: an option text tfjobtitan.py does not declare is ignored,
\* the process gets past parsing unless a declared option's value is
\* malformed, and every setting no declared option gives keeps its default;
\* iris.py given an option text it does not declare stops with a usage
\* error before any training step or log line.
C24_UndeclaredFlags ==
    /\ (prog = "tf" /\ tpc # "parse"
        /\ \E i \in DOMAIN argv : ~Declares(TfParser, argv[i].flag)) =>
            /\ (\A i \in DOMAIN argv :
                    \A o \in TfParser :
                        o.flag = argv[i].flag => Convert(o.type, argv[i].val).ok)
                 => tpc # "usage_error"
            /\ tpc # "usage_error" =>
                 \A o \in TfParser :
                    ~HasFlag(argv, o.flag) => args[o.dest] = o.default
    /\ (prog = "iris" /\ tpc # "parse"
        /\ \E i \in DOMAIN argv : ~Declares(IrisParser, argv[i].flag)) =>
            tpc = "usage_error" /\ steps = 0 /\ evals = 0 /\ log = <<>>

\* C24 (amended): an option text that is neither a declared option of
\* tfjobtitan.py nor a prefix of one is left aside with its value: the
\* process gets past parsing unless an applied argument's value is
\* malformed, and every setting no applied argument gives keeps its
\* default, so that with valid settings the run trains to its end; iris.py
\* given such an option text stops with a usage error before any training
\* step or log line.  A prefix of exactly one declared option is that option.
C24_UnresolvedFlags ==
    /\ (prog = "tf" /\ tpc # "parse"
        /\ \E i \in DOMAIN argv : Resolve(TfParser, argv[i].flag) = {}) =>
            /\ AppliedArgumentsConvert(TfParser) <=> tpc # "usage_error"
            /\ tpc # "usage_error" =>
                /\ unknown = SelectSeq(argv,
                                LAMBDA a : Resolve(TfParser, a.flag) = {})
                /\ \A o \in TfParser :
                    o.dest \notin Given(TfParser) => args[o.dest] = o.default
                /\ (args.batch_size.n > 0 /\ args.optimizer.s \in KerasOptimizers)
                     => tpc # "ValueError"
    /\ (prog = "iris" /\ tpc # "parse"
        /\ \E i \in DOMAIN argv : Resolve(IrisParser, argv[i].flag) = {}) =>
            tpc = "usage_error" /\ steps = 0 /\ evals = 0 /\ log = <<>>
    /\ \A i \in DOMAIN argv :
        (prog = "tf" /\ tpc \notin {"parse", "usage_error"}
         /\ Cardinality(Resolve(TfParser, argv[i].flag)) = 1
         /\ \A j \in (i + 1)..Len(argv) :
                Resolve(TfParser, argv[j].flag) # Resolve(TfParser, argv[i].flag)) =>
            \A o \in Resolve(TfParser, argv[i].flag) :
                args[o.dest] = Convert(o.type, argv[i].val).v

C24_Witness ==
    /\ prog = "tf"
    /\ tpc = "done"
    /\ argv = <<Arg("--learning-rate", F(500)), Arg("--batch", I(10))>>
    /\ unknown = <<Arg("--learning-rate", F(500))>>
    /\ args.learning_rate = F(1)
    /\ used.batch_size_per_replica = 10

\* ------------------------------------------------------------------------
\* C25
\* ------------------------------------------------------------------------
\* the feature frame X exists
HasFeatures == prog = "tf" /\ tpc \in {"features", "fed", "ValueError"}

EmbarkedFilled ==
    ColumnOf(csv, "Embarked").values
        \cup (IF ColumnOf(csv, "Embarked").na THEN {"S"} ELSE {})

====
